---- MODULE Spec2Model ----
(***************************************************************************)
(* sheeter: src/main.rs.  The run main() performs on a decoded WAV stream: *)
(* fft_transform (window planning, per-channel buffer extraction, forward  *)
(* FFT, accumulation of |Re X[k]| into fft_map) followed by                *)
(* amplify_and_normalize.                                                  *)
(*                                                                         *)
(* Numbers.  usize values are naturals (the bounds keep them far from      *)
(* 2^64).  Times are f64 seconds given in half-second ticks, so every      *)
(* product time * sampling_rate is exact in f64 and `as usize` is an exact *)
(* truncation.  An f64 cell of fft_map is the exact rational num/den, kept *)
(* unreduced as [num, den]; 0/0 is NaN.  Samples are integers.  The FFT is *)
(* the exact DFT; its sizes are restricted to those whose twiddle factors  *)
(* have a rational real part (FftSizes), so Re X[k] is an exact half       *)
(* integer.                                                                *)
(***************************************************************************)
EXTENDS Integers, Sequences, FiniteSets, TLC

\* ------------------------------------------------------------- bounds
\* stream lengths 1..MaxLen, channel counts 1..MaxChannels; times in
\* half-second ticks; FftSizes are the window lengths the run may derive
MaxLen == 4
MaxChannels == 3
SampleValues == {-1, 0, 1}
SamplingRates == {1, 2}
StartTicks == {0, 1, 2}
StepTicks == {0, 1, 2, 3}
ChunkTicks == {0, 2, 4, 6, 8}
DurationTicks == {0, 1, 2}
FftSizes == {0, 1, 2, 3, 4, 6}

\* ------------------------------------------------------------ helpers
Min(a, b) == IF a <= b THEN a ELSE b
Max(a, b) == IF a >= b THEN a ELSE b
Abs(a) == IF a < 0 THEN -a ELSE a

\* Option<f64>: <<>> is None, <<t>> is Some(t)
IsSome(o) == Len(o) = 1

\* (seconds * header.sampling_rate as f64) as usize, seconds = ticks/2:
\* the cast truncates toward zero and saturates a negative value to 0
ToUsize(ticks, rate) == IF ticks < 0 THEN 0 ELSE (ticks * rate) \div 2

\* ProgramArgs::get_chunk_step
get_chunk_step(a) == IF IsSome(a.chunk_step) THEN a.chunk_step[1] ELSE a.time_step

\* ----------------------------------------------- fft_transform: plan
LastFrame(samples) == Len(samples) - 1
StepSize(a, rate) == ToUsize(a.time_step, rate)
StartChunk(a, rate, last) == Min(ToUsize(a.start_time, rate), last)
EndChunk(a, rate, start, last) ==
    IF IsSome(a.duration)
    THEN Min(start + ToUsize(a.duration[1], rate), last)
    ELSE last
ReadChunkSize(a, rate) == ToUsize(get_chunk_step(a), rate)

\* Width without the "extra + 1"
WidthNoPlusOne(start, end, step) == (end - start) \div step
\* (end_chunk - start_chunk) / step_size + 1
Width(start, end, step) == (end - start) \div step + 1
Height(rcs) == rcs \div 2

\* an f64 as an exact rational; [num |-> 0, den |-> 0] is NaN
F64(n, d) == [num |-> n, den |-> d]
NaN == F64(0, 0)
IsNaN(v) == v.num = 0 /\ v.den = 0
Zero == F64(0, 2)
\* vec![vec![0_f64; height]; width]
ZeroMap(w, h) == [r \in 1..w |-> [c \in 1..h |-> Zero]]

\* ------------------------------------ fft_transform: channel buffer
\* start of the slice &pcm_samples[channel + (chunk_start + rcs/2).max(0).min(last_frame)..]
SliceStart(ch, chunk_start, rcs, last) ==
    ch + Min(Max(chunk_start + rcs \div 2, 0), last)

\* .iter().step_by(channel_count).take(rcs).collect(), then resize(rcs, 0)
ChannelBuffer(samples, from, cc, rcs) ==
    [i \in 1..rcs |->
        LET idx == from + (i - 1) * cc
        IN IF idx < Len(samples) THEN samples[idx + 1] ELSE 0]

\* ------------------------------------------------ fft.process(buffer)
\* 2*cos(2*pi*m/n) for n in {1,2,3,4,6}
Cos2(n, m) ==
    LET t == ((m % n) * (12 \div n)) % 12
    IN CASE t = 0 -> 2
         [] t = 2 -> 1
         [] t = 3 -> 0
         [] t = 4 -> -1
         [] t = 6 -> -2
         [] t = 8 -> -1
         [] t = 9 -> 0
         [] t = 10 -> 1

RECURSIVE ReSum(_, _, _)
\* sum over the first j entries of buf of buf[i] * 2cos(2 pi k (i-1) / N)
ReSum(buf, k, j) ==
    IF j = 0 THEN 0
    ELSE ReSum(buf, k, j - 1) + buf[j] * Cos2(Len(buf), k * (j - 1))

\* the real parts of the forward DFT of buf, in halves: entry k+1 is 2*Re X[k]
FftRe(buf) == [i \in 1..Len(buf) |-> ReSum(buf, i - 1, Len(buf))]

\* .iter().take(height).skip(1).map(|c| c.re.abs()).enumerate():
\* entry y+1 is the magnitude the loop pairs with index y
Magnitudes(sp, h) == [i \in 1..(Min(h, Len(sp)) - 1) |-> Abs(sp[i + 1])]

\* the (x, y) of every fft_map[x][y] += magnitude of one channel of window x
WriteIndices(row, mags) == {<<row, y - 1>> : y \in 1..Len(mags)}

\* Vec indexing: fft_map[x] and then [y] are bounds-checked
InBounds(map, w) == w[1] < Len(map) /\ w[2] < Len(map[w[1] + 1])

\* fft_map[x][y] += magnitude for every pair of the enumeration
Accumulate(map, row, mags) ==
    [map EXCEPT ![row + 1] =
        [c \in 1..Len(@) |->
            IF c <= Len(mags) THEN F64(@[c].num + mags[c], @[c].den) ELSE @[c]]]

\* ------------------------------------------- amplify_and_normalize
\* f64::max: a NaN operand is ignored
F64Max(i, p) ==
    IF IsNaN(p) THEN i
    ELSE IF IsNaN(i) THEN p
    ELSE IF i.num * p.den >= p.num * i.den THEN i ELSE p

\* f64 division of non-negative values: 0/0 and NaN operands give NaN
F64Div(v, m) ==
    IF IsNaN(v) \/ IsNaN(m) THEN NaN ELSE F64(v.num * m.den, v.den * m.num)

RECURSIVE Flatten(_, _)
\* fft_map.iter().flatten(): the cells of the first r rows, row-major
Flatten(map, r) == IF r = 0 THEN <<>> ELSE Flatten(map, r - 1) \o map[r]

RECURSIVE FoldMax(_, _)
\* .fold(f64::NAN, |p, i| i.max(p)) over the first j cells
FoldMax(cells, j) ==
    IF j = 0 THEN NaN ELSE F64Max(cells[j], FoldMax(cells, j - 1))

SignalMax(map) == FoldMax(Flatten(map, Len(map)), Len(Flatten(map, Len(map))))

\* .for_each(|val| *val /= signal_max)
Normalize(map, m) ==
    [r \in 1..Len(map) |-> [c \in 1..Len(map[r]) |-> F64Div(map[r][c], m)]]

\* -------------------------------------------------------------- state
VARIABLES
    pcm_samples,      \* decoded interleaved samples (parse_wav)
    channel_count,    \* header.channel_count
    sampling_rate,    \* header.sampling_rate
    args,             \* ProgramArgs, times in half-second ticks
    pc,               \* "entry", "loop", "returned", "normalized", "panicked"
    panic,            \* the panic message once pc = "panicked"
    last_frame, step_size, start_chunk, end_chunk, read_chunk_size,
    width, height,
    fft_map,
    x, chunk_start,   \* the enumerate index and item of the window loop
    channel,          \* the channel loop's index
    buffer,           \* the channel buffer as handed to fft.process
    spectrum,         \* 2 * Re of the buffer after fft.process
    writes,           \* the fft_map indices the last channel pass wrote
    signal_max

inputs == <<pcm_samples, channel_count, sampling_rate, args>>
plan == <<last_frame, step_size, start_chunk, end_chunk, read_chunk_size,
          width, height>>
loop == <<x, chunk_start, channel>>
vars == <<inputs, pc, panic, plan, fft_map, loop, buffer, spectrum, writes,
          signal_max>>

Streams == UNION {[1..n -> SampleValues] : n \in 1..MaxLen}
Options(S) == {<<>>} \cup {<<t>> : t \in S}
ArgsSet ==
    [start_time : StartTicks, time_step : StepTicks,
     chunk_step : Options(ChunkTicks), duration : Options(DurationTicks)]

\* parse_wav asserts a non-empty stream; main hands it to fft_transform
Init ==
    /\ pcm_samples \in Streams
    /\ channel_count \in 1..MaxChannels
    /\ sampling_rate \in SamplingRates
    /\ args \in ArgsSet
    /\ ReadChunkSize(args, sampling_rate) \in FftSizes
    /\ pc = "entry"
    /\ panic = ""
    /\ last_frame = 0 /\ step_size = 0 /\ start_chunk = 0 /\ end_chunk = 0
    /\ read_chunk_size = 0 /\ width = 0 /\ height = 0
    /\ fft_map = <<>>
    /\ x = 0 /\ chunk_start = 0 /\ channel = 0
    /\ buffer = <<>> /\ spectrum = <<>> /\ writes = {}
    /\ signal_max = NaN

\* fft_transform up to the window loop: the derived sizes and the zeroed map.
\* The integer division by step_size = 0 panics.
Plan ==
    /\ pc = "entry"
    /\ LET last == LastFrame(pcm_samples)
           step == StepSize(args, sampling_rate)
           start == StartChunk(args, sampling_rate, last)
           end == EndChunk(args, sampling_rate, start, last)
           rcs == ReadChunkSize(args, sampling_rate)
       IN /\ last_frame' = last /\ step_size' = step /\ start_chunk' = start
          /\ end_chunk' = end /\ read_chunk_size' = rcs
          /\ IF step = 0
             THEN /\ pc' = "panicked"
                  /\ panic' = "attempt to divide by zero"
                  /\ UNCHANGED <<width, height, fft_map, loop>>
             ELSE /\ pc' = "loop"
                  /\ width' = Width(start, end, step)
                  /\ height' = Height(rcs)
                  /\ fft_map' = ZeroMap(Width(start, end, step), Height(rcs))
                  /\ x' = 0 /\ chunk_start' = start /\ channel' = 0
                  /\ UNCHANGED panic
    /\ UNCHANGED <<inputs, buffer, spectrum, writes, signal_max>>

\* one pass of the channel loop for the window at chunk_start, and the
\* advance of the loops after it
ProcessChannel ==
    /\ pc = "loop"
    /\ chunk_start < end_chunk
    /\ LET from == SliceStart(channel, chunk_start, read_chunk_size, last_frame)
           buf == ChannelBuffer(pcm_samples, from, channel_count, read_chunk_size)
           sp == FftRe(buf)
           mags == Magnitudes(sp, height)
           ws == WriteIndices(x, mags)
       IN IF from > Len(pcm_samples)
          THEN /\ pc' = "panicked"
               /\ panic' = "range start index out of range for slice"
               /\ writes' = {}
               /\ UNCHANGED <<fft_map, loop, buffer, spectrum>>
          ELSE /\ buffer' = buf
               /\ spectrum' = sp
               /\ writes' = ws
               /\ IF \E w \in ws : ~InBounds(fft_map, w)
                  THEN /\ pc' = "panicked"
                       /\ panic' = "index out of bounds"
                       /\ UNCHANGED <<fft_map, loop>>
                  ELSE /\ fft_map' = Accumulate(fft_map, x, mags)
                       /\ IF channel + 1 < channel_count
                          THEN /\ channel' = channel + 1
                               /\ UNCHANGED <<x, chunk_start>>
                          ELSE /\ channel' = 0
                               /\ x' = x + 1
                               /\ chunk_start' = chunk_start + step_size
                       /\ UNCHANGED <<pc, panic>>
    /\ UNCHANGED <<inputs, plan, signal_max>>

\* the window loop is exhausted: Ok((fft_map, width, height))
Return ==
    /\ pc = "loop"
    /\ chunk_start >= end_chunk
    /\ pc' = "returned"
    /\ UNCHANGED <<inputs, panic, plan, fft_map, loop, buffer, spectrum,
                   writes, signal_max>>

\* main: amplify_and_normalize(&mut fft_map, None)
AmplifyAndNormalize ==
    /\ pc = "returned"
    /\ signal_max' = SignalMax(fft_map)
    /\ fft_map' = Normalize(fft_map, SignalMax(fft_map))
    /\ pc' = "normalized"
    /\ UNCHANGED <<inputs, panic, plan, loop, buffer, spectrum, writes>>

Next == Plan \/ ProcessChannel \/ Return \/ AmplifyAndNormalize

Spec == Init /\ [][Next]_vars


\* ------------------------------------------------ the claims' terms
Cells(map) == {<<r, c>> : r \in 1..Len(map), c \in 1..Height(read_chunk_size)}
IsExactlyZero(v) == v.num = 0 /\ v.den # 0
IsExactlyOne(v) == v.num = v.den /\ v.den # 0
InUnitInterval(v) == v.den > 0 /\ 0 <= v.num /\ v.num <= v.den
Silent(samples) == \A i \in 1..Len(samples) : samples[i] = 0
\* the sample at absolute index idx, 0 outside [0, stream_length)
SampleAt(idx) ==
    IF idx >= 0 /\ idx < Len(pcm_samples) THEN pcm_samples[idx + 1] ELSE 0

\* C1: for a non-empty stream and a valid timing configuration the window
\* positions the loop iterates over are non-empty, strictly increasing and
\* end at or before stream_length - 1 (also when end_chunk = start_chunk).
C1_WindowPositionsNonEmpty ==
    (pc = "returned" /\ read_chunk_size >= 1) =>
        /\ x >= 1
        /\ step_size >= 1
        /\ chunk_start - step_size <= Len(pcm_samples) - 1

\* C2: the number of windows the loop processes equals
\* width = floor((end_chunk - start_chunk) / step) + 1, the rows allocated.
\* Stated for the runs with end_chunk > start_chunk; the empty range is C1's.
C2_WindowCountIsWidth ==
    (pc = "returned" /\ read_chunk_size >= 1 /\ end_chunk > start_chunk) =>
        x = width

\* C3: extracting a channel buffer never fails, for every channel count, and
\* the buffer has length exactly window_length.
C3_ExtractionNeverFails ==
    /\ panic # "range start index out of range for slice"
    /\ (pc = "loop" /\ (x > 0 \/ channel > 0)) => Len(buffer) = read_chunk_size

\* C4: element i of the buffer handed to the FFT for window position p and
\* channel c is samples[p + c + i*channel_count], or 0 outside the stream.
C4_BufferStartsAtWindow ==
    [][(pc = "loop" /\ chunk_start < end_chunk /\ pc' = "loop") =>
        \A i \in 0..(read_chunk_size - 1) :
            buffer'[i + 1] = SampleAt(chunk_start + channel + i * channel_count)]_vars

\* C5: for an all-zero stream every cell of the normalized map is exactly 0
\* (no NaN from a division by zero).
C5_SilenceNormalizesToZero ==
    (pc = "normalized" /\ Silent(pcm_samples)) =>
        \A rc \in Cells(fft_map) : IsExactlyZero(fft_map[rc[1]][rc[2]])

\* C6: after normalization every cell lies in [0,1] for every input, and some
\* cell is exactly 1 when the accumulated maximum is positive.
C6_NormalizedInUnitInterval ==
    pc = "normalized" =>
        /\ \A rc \in Cells(fft_map) : InUnitInterval(fft_map[rc[1]][rc[2]])
        /\ signal_max.num > 0 =>
              \E rc \in Cells(fft_map) : IsExactlyOne(fft_map[rc[1]][rc[2]])

\* C7: the cell at frequency index 0 of every row is 0 after accumulation and
\* after normalization (bin 0 is never added and cell y holds FFT bin y).
\* A NaN cell of a silent map (C5) has num = 0 and does not count against it.
C7_CellZeroIsZero ==
    pc \in {"loop", "returned", "normalized"} =>
        \A rc \in Cells(fft_map) : rc[2] = 1 => fft_map[rc[1]][rc[2]].num = 0

\* C8: a derived window length of 0 or a derived step of 0 makes
\* fft_transform return an InvalidParameter error before any window is
\* processed.  fft_transform has no Err return: pc never becomes
\* "InvalidParameter".
C8_ZeroSizesAreRejected ==
    (pc # "entry" /\ (step_size = 0 \/ read_chunk_size = 0)) =>
        pc = "InvalidParameter"

\* channel 0 carries s, channel 1 is silent
C9_Interleave2(s) ==
    [i \in 1..(2 * Len(s)) |-> IF i % 2 = 1 THEN s[(i + 1) \div 2] ELSE 0]

\* s is the tone cos(2 pi k n / size), n = 0, 1, ...
C9_IsPureTone(s, k, size) ==
    \A i \in 1..Len(s) : 2 * s[i] = Cos2(size, k * (i - 1))

RECURSIVE WindowRow(_, _, _, _, _)
\* the one-row map the channel loop accumulates over channels 0..c-1 for the
\* window at p
WindowRow(samples, cc, rcs, p, c) ==
    IF c = 0 THEN ZeroMap(1, Height(rcs))
    ELSE Accumulate(WindowRow(samples, cc, rcs, p, c - 1), 0,
            Magnitudes(FftRe(ChannelBuffer(samples,
                SliceStart(c - 1, p, rcs, LastFrame(samples)), cc, rcs)),
                Height(rcs)))

\* C9: with the same timing configuration, the two-channel stream whose
\* channel 0 is a pure tone at bin k and whose channel 1 is silent gets, in
\* every window row, the bin-k magnitude of the single-channel stream.
\* Stated at the end of the single-channel run, against the rows the
\* two-channel run computes for its windows.
C9_SilentChannelAddsNothing ==
    (pc = "returned" /\ channel_count = 1) =>
        \A k \in 1..(height - 1) :
            C9_IsPureTone(pcm_samples, k, read_chunk_size) =>
                LET st == C9_Interleave2(pcm_samples)
                    start2 == StartChunk(args, sampling_rate, LastFrame(st))
                    end2 == EndChunk(args, sampling_rate, start2, LastFrame(st))
                IN \A w \in 0..(x - 1) :
                       start2 + w * step_size < end2 =>
                           WindowRow(st, 2, read_chunk_size,
                                     start2 + w * step_size, 2)[1][k]
                               = fft_map[w + 1][k]

\* C10: every write fft_map[x][y] += magnitude has x < width and y < height,
\* and a pass over window x changes no row but row x.
C10_WritesStayInRow ==
    [][(pc = "loop" /\ chunk_start < end_chunk) =>
        /\ panic' # "index out of bounds"
        /\ \A w \in writes' : w[1] = x /\ w[1] < width /\ w[2] < height
        /\ Len(fft_map') = Len(fft_map)
        /\ \A r \in 1..Len(fft_map) : r # x + 1 => fft_map'[r] = fft_map[r]]_vars

\* a second window of a two-channel stream has just written its row
C10_Witness ==
    /\ pc = "loop"
    /\ channel_count >= 2
    /\ \E w \in writes : w[1] >= 1
    /\ \E rc \in Cells(fft_map) : rc[1] >= 2 /\ fft_map[rc[1]][rc[2]].num > 0

====
